---- MODULE Spec2Model ----
(***************************************************************************)
(* Model of the IMOD protocols of scipion-em-imod:                         *)
(*   imod/protocols/protocol_xcorr.py            (ProtImodXcorr)           *)
(*   imod/protocols/protocol_tomoReconstruction.py                         *)
(* Numbers read from text are kept as integers in units of 1/10000.        *)
(***************************************************************************)
EXTENDS Integers, Sequences, FiniteSets, TLC

VARIABLES
    matrixFile,      \* the text lines of the transform file handed to the parser
    parsed,          \* outcome of the last formatTransformationMatrix call
    openHandles,     \* file handles opened and not yet closed
    inputSetOfTiltSeries,   \* the protocol's input set (a parameter)
    computeAlignment,       \* EnumParam: 0 is 'Yes', 1 is 'No'
    binning,                \* FloatParam, in units of 1/10000
    steps,           \* the steps _insertAllSteps has inserted
    done,            \* how many of them have been run
    status,          \* "new", "running", "finished" or "failed"
    lastError,       \* the exception that ended the step run last, or "none"
    fs,              \* the files of the working directory: path -> content
    jobs,            \* the external programs run so far, in order
    attrs,           \* the output attributes the protocol object has (hasattr)
    outputSetOfTiltSeries,
    outputInterpolatedSetOfTiltSeries,
    registry,        \* sets created, outputs defined, source relations defined
    runs,            \* how many times each step function has been executed
    Tomograms        \* ProtImodTomoReconstruction's output set of tomograms

parserVars == <<matrixFile, parsed>>

paramVars == <<inputSetOfTiltSeries, computeAlignment, binning>>

outputVars ==
    <<attrs, outputSetOfTiltSeries, outputInterpolatedSetOfTiltSeries, registry>>

vars ==
    <<matrixFile, parsed, openHandles, inputSetOfTiltSeries, computeAlignment,
      binning, steps, done, status, lastError, fs, jobs, attrs,
      outputSetOfTiltSeries, outputInterpolatedSetOfTiltSeries, registry, runs,
      Tomograms>>

\* ------------------------------------------------------------------ bounds
MaxLines == 2

MaxTs == 2

MaxImgs == 2

MaxRuns == 2

\* --------------------------------------------------------- text of a file
WhiteSpace == {" ", "\t", "\n"}

Digits == {"0", "1", "2", "3", "4", "5", "6", "7", "8", "9"}

DigitVal(c) ==
    CASE c = "0" -> 0 [] c = "1" -> 1 [] c = "2" -> 2 [] c = "3" -> 3
      [] c = "4" -> 4 [] c = "5" -> 5 [] c = "6" -> 6 [] c = "7" -> 7
      [] c = "8" -> 8 [] c = "9" -> 9

\* str.split(): the maximal runs of non-whitespace characters, in order.
RECURSIVE SplitFrom(_, _, _, _)
SplitFrom(line, i, cur, acc) ==
    IF i > Len(line)
    THEN IF cur = <<>> THEN acc ELSE Append(acc, cur)
    ELSE IF line[i] \in WhiteSpace
         THEN SplitFrom(line, i + 1, <<>>,
                        IF cur = <<>> THEN acc ELSE Append(acc, cur))
         ELSE SplitFrom(line, i + 1, Append(cur, line[i]), acc)

Split(line) == SplitFrom(line, 1, <<>>, <<>>)

\* float(token) on plain decimal literals, [sign] digits [ . digits ], the
\* form xftoxg writes; any other token of the model's files is not a number.
Unsigned(tok) ==
    IF tok # <<>> /\ tok[1] \in {"-", "+"} THEN Tail(tok) ELSE tok

DotPos(body) ==
    IF \E p \in 1..Len(body) : body[p] = "."
    THEN CHOOSE p \in 1..Len(body) :
             body[p] = "." /\ \A q \in 1..(p - 1) : body[q] # "."
    ELSE Len(body) + 1

IntPart(body) == SubSeq(body, 1, DotPos(body) - 1)

FracPart(body) == SubSeq(body, DotPos(body) + 1, Len(body))

AllDigits(s) == \A p \in 1..Len(s) : s[p] \in Digits

IsFloatLiteral(tok) ==
    LET body == Unsigned(tok) IN
    /\ AllDigits(IntPart(body))
    /\ AllDigits(FracPart(body))
    /\ Len(IntPart(body)) + Len(FracPart(body)) >= 1

RECURSIVE DigitsValue(_)
DigitsValue(s) ==
    IF s = <<>> THEN 0
    ELSE DigitsValue(SubSeq(s, 1, Len(s) - 1)) * 10 + DigitVal(s[Len(s)])

\* the first four decimals, in units of 1/10000
FracValue(s) ==
    LET d(p) == IF p <= Len(s) THEN DigitVal(s[p]) ELSE 0 IN
    d(1) * 1000 + d(2) * 100 + d(3) * 10 + d(4)

Float(tok) ==
    LET body == Unsigned(tok)
        mag  == DigitsValue(IntPart(body)) * 10000 + FracValue(FracPart(body))
    IN  IF tok[1] = "-" THEN 0 - mag ELSE mag

\* the literals 0.0 and 1.0 of the bottom row
Zero == Float(<<"0", ".", "0">>)

One == Float(<<"1", ".", "0">>)

\* ----------------------------------------------- formatTransformationMatrix
\* np.empty([3, 3, numberLines]): numberLines slices, none of them filled in;
\* "at" holds the slices assigned so far
NpEmpty(numberLines) == [shape |-> numberLines, at |-> <<>>]

\* SetSlice without "i += 1": every line lands in slice 0
SetSliceNoIncrement(frameMatrix, i, m) ==
    [frameMatrix EXCEPT !.at = [j \in (DOMAIN @) \cup {0} |-> m]]

\* frameMatrix[:, :, i] = m
SetSlice(frameMatrix, i, m) ==
    [frameMatrix EXCEPT !.at = [j \in (DOMAIN @) \cup {i} |->
                                   IF j = i THEN m ELSE @[j]]]

\* the first of values[0] .. values[5] whose read or conversion raises
LineError(values) ==
    LET bad(k) == k >= Len(values) \/ ~IsFloatLiteral(values[k + 1]) IN
    IF \E k \in 0..5 : bad(k)
    THEN LET k == CHOOSE k \in 0..5 : bad(k) /\ \A j \in 0..(k - 1) : ~bad(j)
         IN  IF k >= Len(values) THEN "IndexError" ELSE "ValueError"
    ELSE "none"

\* LineMatrix with the fields laid out row by row (v1 and v2 exchanged)
LineMatrixRowMajor(values) ==
    [r \in 0..2 |-> [c \in 0..2 |->
        CASE r = 0 /\ c = 0 -> Float(values[1])
          [] r = 0 /\ c = 1 -> Float(values[2])
          [] r = 1 /\ c = 0 -> Float(values[3])
          [] r = 1 /\ c = 1 -> Float(values[4])
          [] r = 0 /\ c = 2 -> Float(values[5])
          [] r = 1 /\ c = 2 -> Float(values[6])
          [] r = 2 /\ c = 0 -> Zero
          [] r = 2 /\ c = 1 -> Zero
          [] r = 2 /\ c = 2 -> One]]

\* frameMatrix[r, c, i] for one i, as the nine assignments of the loop body
LineMatrix(values) ==
    [r \in 0..2 |-> [c \in 0..2 |->
        CASE r = 0 /\ c = 0 -> Float(values[1])
          [] r = 1 /\ c = 0 -> Float(values[2])
          [] r = 0 /\ c = 1 -> Float(values[3])
          [] r = 1 /\ c = 1 -> Float(values[4])
          [] r = 0 /\ c = 2 -> Float(values[5])
          [] r = 1 /\ c = 2 -> Float(values[6])
          [] r = 2 /\ c = 0 -> Zero
          [] r = 2 /\ c = 1 -> Zero
          [] r = 2 /\ c = 2 -> One]]

\* RaiseAt with the error swallowed: the slices filled so far are returned
RaiseAtReturnsPartial(err, i, frameMatrix) ==
    [exc |-> err, line |-> i, returns |-> {frameMatrix}]

\* an exception leaves the loop and the function: nothing is returned
RaiseAt(err, i, frameMatrix) == [exc |-> err, line |-> i, returns |-> {}]

\* for line in lines: ... i += 1; return frameMatrix
RECURSIVE ParseLines(_, _, _)
ParseLines(lines, i, frameMatrix) ==
    IF i >= Len(lines)
    THEN [exc |-> "none", line |-> i, returns |-> {frameMatrix}]
    ELSE LET values == Split(lines[i + 1])
             err    == LineError(values)
         IN  IF err # "none"
             THEN RaiseAt(err, i, frameMatrix)
             ELSE ParseLines(lines, i + 1,
                             SetSlice(frameMatrix, i, LineMatrix(values)))

\* The handle is closed when the with block is left.
\* WithOpenReadlines without the with block: open(), readlines(), no close
WithOpenReadlinesNoExit(files, path) ==
    IF path \notin DOMAIN files
    THEN [exc |-> "FileNotFoundError", lines |-> <<>>, handleOpen |-> FALSE]
    ELSE [exc |-> "none", lines |-> files[path], handleOpen |-> TRUE]

\* with open(path, "r") as matrix: lines = matrix.readlines()
\* open() of a path that does not exist raises and opens nothing.
WithOpenReadlines(files, path) ==
    IF path \notin DOMAIN files
    THEN [exc |-> "FileNotFoundError", lines |-> <<>>, handleOpen |-> FALSE]
    ELSE LET matrix == [content |-> files[path], open |-> TRUE]
             lines  == matrix.content                        \* readlines()
             exited == [matrix EXCEPT !.open = FALSE]        \* __exit__
         IN  [exc |-> "none", lines |-> lines, handleOpen |-> exited.open]

formatTransformationMatrix(files, path) ==
    LET rd          == WithOpenReadlines(files, path)
        numberLines == Len(rd.lines)
        res         == ParseLines(rd.lines, 0, NpEmpty(numberLines))
    IN  IF rd.exc # "none"
        THEN [exc |-> rd.exc, line |-> 0, returns |-> {},
              handleOpen |-> rd.handleOpen]
        ELSE [exc |-> res.exc, line |-> res.line, returns |-> res.returns,
              handleOpen |-> rd.handleOpen]

\* ------------------------------------------------------------ input files
LineIdentityShift ==
    <<"1", ".", "0", " ", "0", ".", "0", " ", "0", ".", "0", " ",
      "1", ".", "0", " ", "2", ".", "5", " ", "-", "1", ".", "5", "\n">>

LineDistinct ==
    <<"0", ".", "5", " ", "1", ".", "5", " ", "-", "0", ".", "2", "5", " ",
      "2", " ", "3", ".", "7", "5", " ", "-", "4", ".", "0", "\n">>

LineTabbed ==
    <<" ", " ", "0", ".", "9", "9", "9", "8", "\t", "0", ".", "0", "1", "7", "5",
      " ", "-", "0", ".", "0", "1", "7", "5", " ", " ", "0", ".", "9", "9", "9",
      "8", " ", "0", ".", "0", " ", "0", ".", "0">>

LineFiveTokens ==
    <<"1", ".", "0", " ", "0", ".", "0", " ", "0", ".", "0", " ",
      "1", ".", "0", " ", "2", ".", "5", "\n">>

LineSevenTokens ==
    <<"0", ".", "5", " ", "1", ".", "5", " ", "-", "0", ".", "2", "5", " ",
      "2", " ", "3", ".", "7", "5", " ", "-", "4", ".", "0", " ",
      "7", ".", "0", "\n">>

LineNonNumeric ==
    <<"1", ".", "0", " ", "0", ".", "0", " ", "a", "b", "c", " ",
      "1", ".", "0", " ", "2", ".", "5", " ", "-", "1", ".", "5", "\n">>

LineSevenBadTail ==
    <<"1", ".", "0", " ", "0", ".", "0", " ", "0", ".", "0", " ",
      "1", ".", "0", " ", "2", ".", "5", " ", "-", "1", ".", "5", " ",
      "e", "n", "d", "\n">>

LineBlank == <<"\n">>

GoodLines == {LineIdentityShift, LineDistinct, LineTabbed}

AllLines ==
    GoodLines \cup {LineFiveTokens, LineSevenTokens, LineNonNumeric,
                    LineSevenBadTail, LineBlank}

SeqsUpTo(S, n) == UNION {[1..m -> S] : m \in 0..n}

TransformFiles == SeqsUpTo(AllLines, MaxLines)


\* ------------------------------------------------- tomo and pwem objects
\* An object id of 0 stands for "no id yet"; a transform is {} or {matrix}.
TsId(k) == <<"TS", k>>

InputTiltImage(k, i) ==
    [objId |-> k + i - 1, tiltAngle |-> 3 * i - 63, samplingRate |-> 13500,
     location |-> <<i, <<"import", TsId(k), "mrcs">>>>,
     transform |-> IF k % 2 = 0 THEN {LineMatrix(Split(LineIdentityShift))}
                   ELSE {}]

InputTiltSeries(k, m) ==
    [objId |-> k, tsId |-> TsId(k), samplingRate |-> 13500,
     items |-> [i \in 1..m |-> InputTiltImage(k, i)]]

InputSets ==
    UNION {{[samplingRate |-> 13500, dim |-> <<512, 512>>,
             items |-> [k \in 1..n |-> InputTiltSeries(k, m[k])]] :
               m \in [1..n -> 0..MaxImgs]} : n \in 0..MaxTs}

\* tomoObj.TiltSeries(tsId=tsId)
TiltSeries(tsId) ==
    [objId |-> 0, tsId |-> tsId, samplingRate |-> 0, items |-> <<>>,
     idCount |-> 0, written |-> FALSE, rowSize |-> 0]

\* tomoObj.TiltImage()
TiltImage ==
    [objId |-> 0, tiltAngle |-> 0, samplingRate |-> 0,
     location |-> <<0, <<>>>>, transform |-> {}]

\* TiltSeries.copyInfo(other): acquisition data of the series, not its id
CopyInfoTs(newTs, ts) ==
    [newTs EXCEPT !.tsId = ts.tsId, !.samplingRate = ts.samplingRate]

\* TiltImage.copyInfo(other, copyId)
CopyInfoTi(newTi, tiltImage, copyId) ==
    [newTi EXCEPT !.tiltAngle = tiltImage.tiltAngle,
                  !.samplingRate = tiltImage.samplingRate,
                  !.objId = IF copyId THEN tiltImage.objId ELSE @]

SetLocation(newTi, location) == [newTi EXCEPT !.location = location]

\* transform = data.Transform(); transform.setMatrix(m); newTi.setTransform
SetTransform(newTi, m) == [newTi EXCEPT !.transform = {m}]

\* the object of _createSetOfTiltSeries, before anything is copied into it
NewSet(setId, suffix) ==
    [setId |-> setId, suffix |-> suffix, samplingRate |-> 0, dim |-> <<>>,
     items |-> <<>>, idCount |-> 0, written |-> FALSE]

NoSet == NewSet(0, "")

\* Set.append(item): an item without id gets the next one
NextId(idCount, item) ==
    IF item.objId = 0 THEN idCount + 1
    ELSE (IF idCount > item.objId THEN idCount ELSE item.objId) + 1

\* outputSetOfTiltSeries.append(newTs)
AppendTs(out, newTs) ==
    [out EXCEPT !.items = Append(@, [newTs EXCEPT !.objId =
                                        IF @ = 0 THEN out.idCount + 1 ELSE @]),
                !.idCount = NextId(@, newTs)]

\* newTs.append(newTi), newTs being the series appended last
AppendTi(out, newTi) ==
    LET newTs == out.items[Len(out.items)] IN
    [out EXCEPT !.items[Len(out.items)] =
        [newTs EXCEPT !.items = Append(@, [newTi EXCEPT !.objId =
                                    IF @ = 0 THEN newTs.idCount + 1 ELSE @]),
                      !.idCount = NextId(@, newTi)]]

\* newTs.write(); outputSetOfTiltSeries.update(newTs)
WriteUpdateTs(out) ==
    LET newTs == out.items[Len(out.items)] IN
    [out EXCEPT !.items[Len(out.items)] =
        [newTs EXCEPT !.written = TRUE, !.rowSize = Len(newTs.items)]]

\* outputSetOfTiltSeries.write()
WriteSet(out) == [out EXCEPT !.written = TRUE]

\* ------------------------------------------------------------ the protocol
PrexfPath(tsId) == <<"extra", tsId, "prexf">>

PrexgPath(tsId) == <<"extra", tsId, "prexg">>

PrealiPath(tsId) == <<"extra", tsId, "preali.st">>

StPath(tsId) == <<"tmp", tsId, "st">>

RawtltPath(tsId) == <<"tmp", tsId, "rawtlt">>

\* content of a file or directory the model does not look into
Opaque == <<>>

WriteFile(files, path, content) ==
    [p \in (DOMAIN files) \cup {path} |->
        IF p = path THEN content ELSE files[p]]

\* the protocol object's output attributes, as one record
Self ==
    [attrs |-> attrs,
     outputSetOfTiltSeries |-> outputSetOfTiltSeries,
     outputInterpolatedSetOfTiltSeries |-> outputInterpolatedSetOfTiltSeries,
     registry |-> registry]

NoRegistry == [created |-> <<>>, outputs |-> <<>>, relations |-> <<>>]

\* the value the model keeps in Tomograms while the attribute holds no set
NoTomograms ==
    [setId |-> 0, samplingRate |-> 0, items |-> <<>>, idCount |-> 0,
     written |-> FALSE, streamState |-> "STREAM_OPEN"]

\* _createSetOfTiltSeries(suffix); copyInfo(input); setDim(input.getDim())
CreateSetOfTiltSeries(self, suffix) ==
    [NewSet(Len(self.registry.created) + 1, suffix)
        EXCEPT !.samplingRate = inputSetOfTiltSeries.samplingRate,
               !.dim = inputSetOfTiltSeries.dim]

Register(self, name, suffix) ==
    [created   |-> Append(self.registry.created, suffix),
     outputs   |-> Append(self.registry.outputs, name),
     relations |-> Append(self.registry.relations,
                          <<"inputSetOfTiltSeries", name>>)]

\* getOutputSetOfTiltSeries without the hasattr test
getOutputSetOfTiltSeriesAlways(self) ==
    [self EXCEPT
        !.outputSetOfTiltSeries = CreateSetOfTiltSeries(self, ""),
        !.attrs = @ \cup {"outputSetOfTiltSeries"},
        !.registry = Register(self, "outputSetOfTiltSeries", "")]

getOutputSetOfTiltSeries(self) ==
    IF "outputSetOfTiltSeries" \notin self.attrs
    THEN [self EXCEPT
            !.outputSetOfTiltSeries = CreateSetOfTiltSeries(self, ""),
            !.attrs = @ \cup {"outputSetOfTiltSeries"},
            !.registry = Register(self, "outputSetOfTiltSeries", "")]
    ELSE self

getOutputInterpolatedSetOfTiltSeries(self) ==
    IF "outputInterpolatedSetOfTiltSeries" \notin self.attrs
    THEN [self EXCEPT
            !.outputInterpolatedSetOfTiltSeries =
                LET new == CreateSetOfTiltSeries(self, "Interpolated") IN
                IF binning > 10000
                THEN [new EXCEPT !.samplingRate = (@ * binning) \div 10000]
                ELSE new,
            !.attrs = @ \cup {"outputInterpolatedSetOfTiltSeries"},
            !.registry = Register(self, "outputInterpolatedSetOfTiltSeries",
                                  "Interpolated")]
    ELSE self

\* --- convertInputStep: for ts in inputSetOfTiltSeries ...
\* getFirstItem() of an empty tilt-series is None, and None.getLocation()
\* raises AttributeError after the two directories have been made.
RECURSIVE ConvertLoop(_, _, _)
ConvertLoop(tsList, k, files) ==
    IF k > Len(tsList) THEN [exc |-> "none", fs |-> files]
    ELSE LET ts    == tsList[k]
             dirs  == WriteFile(WriteFile(files, <<"tmp", ts.tsId>>, Opaque),
                                <<"extra", ts.tsId>>, Opaque)
             \* ts.applyTransform(out) or path.createLink(in, out)
             stack == WriteFile(dirs, StPath(ts.tsId), Opaque)
             tlt   == WriteFile(stack, RawtltPath(ts.tsId), Opaque)
         IN  IF Len(ts.items) = 0
             THEN [exc |-> "AttributeError", fs |-> dirs]
             ELSE ConvertLoop(tsList, k + 1, tlt)

\* the first loop of computeXcorrStep with xftoxg run before tiltxcorr
RECURSIVE XcorrJobsLoopXftoxgFirst(_, _, _, _, _)
XcorrJobsLoopXftoxgFirst(tsList, k, files, log, tool) ==
    IF k > Len(tsList) THEN [fs |-> files, jobs |-> log]
    ELSE LET tsId == tsList[k].tsId IN
         XcorrJobsLoopXftoxgFirst(tsList, k + 1,
             WriteFile(WriteFile(files, PrexgPath(tsId), tool[k]),
                       PrexfPath(tsId), Opaque),
             log \o <<<<"xftoxg", tsId>>, <<"tiltxcorr", tsId>>>>,
             tool)

\* --- computeXcorrStep, first loop: runJob('tiltxcorr'), runJob('xftoxg').
\* What xftoxg writes is the tool's business: tool[k] is the text it writes
\* for tilt-series k.
RECURSIVE XcorrJobsLoop(_, _, _, _, _)
XcorrJobsLoop(tsList, k, files, log, tool) ==
    IF k > Len(tsList) THEN [fs |-> files, jobs |-> log]
    ELSE LET tsId == tsList[k].tsId IN
         XcorrJobsLoop(tsList, k + 1,
             WriteFile(WriteFile(files, PrexfPath(tsId), Opaque),
                       PrexgPath(tsId), tool[k]),
             log \o <<<<"tiltxcorr", tsId>>, <<"xftoxg", tsId>>>>,
             tool)

\* Slice that ignores the index: alignmentMatrix[:, :, 0]
SliceFirst(alignmentMatrix, index) ==
    IF 0 >= alignmentMatrix.shape THEN [exc |-> "IndexError", m |-> {}]
    ELSE [exc |-> "none", m |-> {alignmentMatrix.at[0]}]

\* alignmentMatrix[:, :, index]
Slice(alignmentMatrix, index) ==
    IF index >= alignmentMatrix.shape THEN [exc |-> "IndexError", m |-> {}]
    ELSE [exc |-> "none", m |-> {alignmentMatrix.at[index]}]

\* for index, tiltImage in enumerate(ts): ... newTs.append(newTi)
RECURSIVE ApplyImages(_, _, _, _)
ApplyImages(out, ts, alignmentMatrix, index) ==
    IF index >= Len(ts.items) THEN [exc |-> "none", out |-> out]
    ELSE LET tiltImage == ts.items[index + 1]
             copied    == SetLocation(CopyInfoTi(TiltImage, tiltImage, TRUE),
                                      tiltImage.location)
             sl        == Slice(alignmentMatrix, index)
         IN  IF sl.exc # "none" THEN [exc |-> sl.exc, out |-> out]
             ELSE ApplyImages(
                      AppendTi(out, SetTransform(copied,
                                                 CHOOSE m \in sl.m : TRUE)),
                      ts, alignmentMatrix, index + 1)

\* --- computeXcorrStep, second loop ("Generate output tilt series")
RECURSIVE GenerateOutputLoop(_, _, _, _)
GenerateOutputLoop(tsList, k, files, st) ==
    IF k > Len(tsList) THEN st
    ELSE LET ts == tsList[k]
             r  == formatTransformationMatrix(files, PrexgPath(ts.tsId))
             leaked == st.handles + (IF r.handleOpen THEN 1 ELSE 0)
         IN  IF r.exc # "none"
             THEN [st EXCEPT !.exc = r.exc, !.handles = leaked]
             ELSE LET alignmentMatrix == CHOOSE fm \in r.returns : TRUE
                      newTs == CopyInfoTs(TiltSeries(ts.tsId), ts)
                      im    == ApplyImages(AppendTs(st.out, newTs), ts,
                                           alignmentMatrix, 0)
                  IN  IF im.exc # "none"
                      THEN [out |-> im.out, exc |-> im.exc, handles |-> leaked]
                      ELSE GenerateOutputLoop(tsList, k + 1, files,
                               [out |-> WriteSet(WriteUpdateTs(im.out)),
                                exc |-> "none", handles |-> leaked])

\* --- computeInterpolatedStackStep, the loop over the tilt-series
\* int(x): truncation of a non-negative number
IntOf(x) == x \div 10000

RECURSIVE InterpolateImages(_, _, _, _)
InterpolateImages(out, ts, bin, index) ==
    IF index >= Len(ts.items) THEN out
    ELSE LET tiltImage == ts.items[index + 1]
             located   == SetLocation(CopyInfoTi(TiltImage, tiltImage, TRUE),
                                      <<index + 1, PrealiPath(ts.tsId)>>)
             newTi     == IF bin > 10000
                          THEN [located EXCEPT !.samplingRate =
                                    tiltImage.samplingRate * IntOf(bin)]
                          ELSE located
         IN  InterpolateImages(AppendTi(out, newTi), ts, bin, index + 1)

SetLastSamplingRate(out, sr) ==
    [out EXCEPT !.items[Len(out.items)].samplingRate = sr]

RECURSIVE InterpolateLoop(_, _, _)
InterpolateLoop(tsList, k, st) ==
    IF k > Len(tsList) THEN st
    ELSE LET ts    == tsList[k]
             newTs == CopyInfoTs(TiltSeries(ts.tsId), ts)
             o1    == AppendTs(st.out, newTs)
             o2    == InterpolateImages(o1, ts, binning, 0)
             o3    == IF binning > 10000
                      THEN SetLastSamplingRate(o2, ts.samplingRate * IntOf(binning))
                      ELSE o2
         IN  InterpolateLoop(tsList, k + 1,
                 [out  |-> WriteSet(WriteUpdateTs(o3)),
                  fs   |-> WriteFile(st.fs, PrealiPath(ts.tsId), Opaque),
                  jobs |-> Append(st.jobs, <<"newstack", ts.tsId>>)])

\* ------------------------------------------------------------------ actions
DefaultBinning == Float(<<"1", ".", "0">>)

Binnings == {Float(<<"1", ".", "0">>), Float(<<"1", ".", "5">>),
             Float(<<"2", ".", "0">>)}

\* what xftoxg may write: n well-formed lines, or a file cut short
XftoxgFile(n) ==
    [j \in 1..n |-> CASE j % 3 = 1 -> LineDistinct
                      [] j % 3 = 2 -> LineIdentityShift
                      [] OTHER     -> LineTabbed]

XftoxgFiles == {XftoxgFile(n) : n \in 0..MaxLines} \cup {<<LineFiveTokens>>}

StepNames ==
    {"convertInputStep", "computeXcorrStep", "computeInterpolatedStackStep"}

NotCalled == [called |-> FALSE, exc |-> "none", line |-> 0, returns |-> {}]

ParserIdle ==
    /\ matrixFile = <<>>
    /\ parsed = NotCalled

Init ==
    /\ ParserIdle
    /\ openHandles = 0
    /\ inputSetOfTiltSeries \in InputSets
    /\ computeAlignment \in {0, 1}
    /\ binning \in IF computeAlignment = 0 THEN Binnings ELSE {DefaultBinning}
    /\ steps = <<>>
    /\ done = 0
    /\ status = "new"
    /\ lastError = "none"
    /\ fs = <<>>
    /\ jobs = <<>>
    /\ attrs = {}
    /\ outputSetOfTiltSeries = NoSet
    /\ outputInterpolatedSetOfTiltSeries = NoSet
    /\ registry = NoRegistry
    /\ runs = [step \in StepNames |-> 0]
    /\ Tomograms = NoTomograms

InsertAllSteps ==
    /\ status = "new"
    /\ steps' = <<"convertInputStep", "computeXcorrStep">> \o
                (IF computeAlignment = 0
                 THEN <<"computeInterpolatedStackStep">> ELSE <<>>)
    /\ status' = "running"
    /\ UNCHANGED <<parserVars, openHandles, paramVars, done, lastError, fs,
                   jobs, outputVars, runs, Tomograms>>

IsNext(step) ==
    /\ status = "running"
    /\ done < Len(steps)
    /\ steps[done + 1] = step

Count(step) == runs' = [runs EXCEPT ![step] = @ + 1]

\* the step runner: a step that raises fails the protocol
StepEnds ==
    /\ done' = IF lastError' = "none" THEN done + 1 ELSE done
    /\ status' = IF lastError' # "none" THEN "failed"
                 ELSE IF done + 1 = Len(steps) THEN "finished" ELSE "running"

ConvertInputBody ==
    \E r \in {ConvertLoop(inputSetOfTiltSeries.items, 1, fs)} :
       /\ fs' = r.fs
       /\ lastError' = r.exc
       /\ Count("convertInputStep")
       /\ UNCHANGED <<parserVars, openHandles, paramVars, steps, jobs,
                      outputVars, Tomograms>>

ConvertInputStep ==
    /\ IsNext("convertInputStep")
    /\ ConvertInputBody
    /\ StepEnds

\* xftoxg is a function of its input: run again, it writes the same text
ToolChoices ==
    {tool \in [1..Len(inputSetOfTiltSeries.items) -> XftoxgFiles] :
        \A k \in DOMAIN tool :
            LET p == PrexgPath(inputSetOfTiltSeries.items[k].tsId) IN
            p \in DOMAIN fs => tool[k] = fs[p]}

\* the body of computeXcorrStep: both loops, then self._store()
ComputeXcorrBody ==
    \E tool \in ToolChoices :
    \E ran \in {XcorrJobsLoop(inputSetOfTiltSeries.items, 1, fs, jobs, tool)} :
    \E self \in {getOutputSetOfTiltSeries(Self)} :
    \E st \in {GenerateOutputLoop(inputSetOfTiltSeries.items, 1, ran.fs,
                    [out |-> self.outputSetOfTiltSeries, exc |-> "none",
                     handles |-> openHandles])} :
       /\ fs' = ran.fs
       /\ jobs' = ran.jobs
       /\ attrs' = self.attrs
       /\ registry' = self.registry
       /\ outputSetOfTiltSeries' = st.out
       /\ openHandles' = st.handles
       /\ lastError' = st.exc
       /\ Count("computeXcorrStep")
       /\ UNCHANGED <<parserVars, paramVars, steps,
                      outputInterpolatedSetOfTiltSeries, Tomograms>>

ComputeXcorrStep ==
    /\ IsNext("computeXcorrStep")
    /\ ComputeXcorrBody
    /\ StepEnds

ComputeInterpolatedStackBody ==
    \E self \in {getOutputInterpolatedSetOfTiltSeries(Self)} :
    \E st \in {InterpolateLoop(inputSetOfTiltSeries.items, 1,
                    [out |-> self.outputInterpolatedSetOfTiltSeries,
                     fs |-> fs, jobs |-> jobs])} :
       /\ attrs' = self.attrs
       /\ registry' = self.registry
       /\ outputInterpolatedSetOfTiltSeries' = st.out
       /\ fs' = st.fs
       /\ jobs' = st.jobs
       /\ lastError' = "none"
       /\ Count("computeInterpolatedStackStep")
       /\ UNCHANGED <<parserVars, openHandles, paramVars, steps,
                      outputSetOfTiltSeries, Tomograms>>

ComputeInterpolatedStackStep ==
    /\ IsNext("computeInterpolatedStackStep")
    /\ ComputeInterpolatedStackBody
    /\ StepEnds

Next ==
    \/ InsertAllSteps
    \/ ConvertInputStep
    \/ ComputeXcorrStep
    \/ ComputeInterpolatedStackStep

Spec == Init /\ [][Next]_vars

\* --- a step function executed again on the same protocol object
\* (a step that is run once more when the protocol is continued)
ReapplyComputeXcorrStep ==
    /\ runs["computeXcorrStep"] >= 1
    /\ runs["computeXcorrStep"] < MaxRuns
    /\ ComputeXcorrBody
    /\ UNCHANGED <<done, status>>

ReapplyComputeInterpolatedStackStep ==
    /\ runs["computeInterpolatedStackStep"] >= 1
    /\ runs["computeInterpolatedStackStep"] < MaxRuns
    /\ ComputeInterpolatedStackBody
    /\ UNCHANGED <<done, status>>

NextRerun ==
    \/ Next
    \/ ReapplyComputeXcorrStep
    \/ ReapplyComputeInterpolatedStackStep

SpecRerun == Init /\ [][NextRerun]_vars

\* ------------------------------------------- the parser applied to a file
ProtocolIdle ==
    /\ inputSetOfTiltSeries \in {x \in InputSets : x.items = <<>>}
    /\ computeAlignment = 1
    /\ binning = DefaultBinning
    /\ steps = <<>>
    /\ done = 0
    /\ status = "new"
    /\ lastError = "none"
    /\ jobs = <<>>
    /\ attrs = {}
    /\ outputSetOfTiltSeries = NoSet
    /\ outputInterpolatedSetOfTiltSeries = NoSet
    /\ registry = NoRegistry
    /\ runs = [step \in StepNames |-> 0]
    /\ Tomograms = NoTomograms

ParsePath == PrexgPath(TsId(1))

\* a working directory that holds one transform file, or none
InitParse ==
    /\ ProtocolIdle
    /\ matrixFile = ParsePath
    /\ fs \in {WriteFile(<<>>, ParsePath, f) : f \in TransformFiles} \cup {<<>>}
    /\ parsed = NotCalled
    /\ openHandles = 0

CallFormatTransformationMatrix ==
    /\ parsed = NotCalled
    /\ matrixFile = ParsePath
    /\ \E r \in {formatTransformationMatrix(fs, matrixFile)} :
       /\ parsed' = [called |-> TRUE, exc |-> r.exc, line |-> r.line,
                     returns |-> r.returns]
       /\ openHandles' = openHandles + (IF r.handleOpen THEN 1 ELSE 0)
    /\ UNCHANGED <<matrixFile, paramVars, steps, done, status, lastError, fs,
                   jobs, outputVars, runs, Tomograms>>

NextParse == CallFormatTransformationMatrix

SpecParse == InitParse /\ [][NextParse]_vars

\* --------------------------------------- the INFO functions of ProtImodXcorr
\* a message is the format string and the numbers it is filled with; reading
\* an attribute the protocol object does not have raises AttributeError
InfoRaises == [exc |-> "AttributeError", text |-> "", numbers |-> <<>>]

GetSize(set) == Len(set.items)

\* _summary: the two tests are each other's negation, the else branch
\* ("Output classes not ready yet.") is never taken
Summary(self) ==
    IF "outputInterpolatedSetOfTiltSeries" \notin self.attrs
    THEN IF "outputSetOfTiltSeries" \notin self.attrs THEN InfoRaises
         ELSE [exc |-> "none",
               text |-> "Input Tilt-Series: %d.\nTransformation matrices calculated: %d.\n",
               numbers |-> <<GetSize(inputSetOfTiltSeries),
                             GetSize(self.outputSetOfTiltSeries)>>]
    ELSE IF "outputInterpolatedSetOfTiltSeries" \in self.attrs
    THEN IF "outputSetOfTiltSeries" \notin self.attrs THEN InfoRaises
         ELSE [exc |-> "none",
               text |-> "Input Tilt-Series: %d.\nTransformation matrices calculated: %d.\nInterpolated Tilt-Series: %d.\n",
               numbers |-> <<GetSize(self.outputSetOfTiltSeries),
                             GetSize(self.outputSetOfTiltSeries),
                             GetSize(self.outputInterpolatedSetOfTiltSeries)>>]
    ELSE [exc |-> "none", text |-> "Output classes not ready yet.",
          numbers |-> <<>>]

\* _methods
Methods(self) ==
    IF "outputInterpolatedSetOfTiltSeries" \notin self.attrs
    THEN IF "outputSetOfTiltSeries" \notin self.attrs THEN InfoRaises
         ELSE [exc |-> "none",
               text |-> "The transformation matrix has been calculated for %d Tilt-series using the IMOD procedure.\n",
               numbers |-> <<GetSize(self.outputSetOfTiltSeries)>>]
    ELSE IF "outputInterpolatedSetOfTiltSeries" \in self.attrs
    THEN IF "outputSetOfTiltSeries" \notin self.attrs THEN InfoRaises
         ELSE [exc |-> "none",
               text |-> "The transformation matrix has been calculated for %d Tilt-series using the IMOD procedure.\nAlso, interpolation has been completed for %d Tilt-series.\n",
               numbers |-> <<GetSize(self.outputSetOfTiltSeries),
                             GetSize(self.outputInterpolatedSetOfTiltSeries)>>]
    ELSE [exc |-> "none", text |-> "Output classes not ready yet.",
          numbers |-> <<>>]

\* ------------------------------------------- ProtImodTomoReconstruction
\* (imod/protocols/protocol_tomoReconstruction.py)
RecPath(tsId) == <<"tmp", tsId, "rec">>

MrcPath(tsId) == <<"extra", tsId, "mrc">>

\* self.inputSetOfTiltSeries.get()[tsObjId]
GetItem(inputSet, tsObjId) ==
    inputSet.items[CHOOSE k \in DOMAIN inputSet.items :
                       inputSet.items[k].objId = tsObjId]

\* the loop of _insertAllSteps with createOutputStep inserted too early
RECURSIVE InsertLoopOutputFirst(_, _)
InsertLoopOutputFirst(tsList, k) ==
    IF k > Len(tsList) THEN <<>>
    ELSE <<<<"convertInputStep", tsList[k].objId>>,
           <<"createOutputStep", tsList[k].objId>>,
           <<"computeReconstructionStep", tsList[k].objId>>>>
         \o InsertLoopOutputFirst(tsList, k + 1)

\* for ts in self.inputSetOfTiltSeries.get(): three _insertFunctionStep calls
RECURSIVE InsertLoop(_, _)
InsertLoop(tsList, k) ==
    IF k > Len(tsList) THEN <<>>
    ELSE <<<<"convertInputStep", tsList[k].objId>>,
           <<"computeReconstructionStep", tsList[k].objId>>,
           <<"createOutputStep", tsList[k].objId>>>>
         \o InsertLoop(tsList, k + 1)

TomoStepKeys ==
    ({"convertInputStep", "computeReconstructionStep", "createOutputStep"}
        \X (1..MaxTs)) \cup {<<"closeOutputSetsStep">>}

\* the reconstruction protocol before _insertAllSteps; the parameters and
\* outputs of ProtImodXcorr play no part
InitTomo ==
    /\ ParserIdle
    /\ openHandles = 0
    /\ inputSetOfTiltSeries \in InputSets
    /\ computeAlignment = 1
    /\ binning = DefaultBinning
    /\ steps = <<>>
    /\ done = 0
    /\ status = "new"
    /\ lastError = "none"
    /\ fs = <<>>
    /\ jobs = <<>>
    /\ attrs = {}
    /\ outputSetOfTiltSeries = NoSet
    /\ outputInterpolatedSetOfTiltSeries = NoSet
    /\ registry = NoRegistry
    /\ runs = [step \in TomoStepKeys |-> 0]
    /\ Tomograms = NoTomograms

InsertAllStepsTomo ==
    /\ status = "new"
    /\ steps' = InsertLoop(inputSetOfTiltSeries.items, 1)
                \o <<<<"closeOutputSetsStep">>>>
    /\ status' = "running"
    /\ UNCHANGED <<parserVars, openHandles, paramVars, done, lastError, fs,
                   jobs, outputVars, runs, Tomograms>>

\* super().convertInputStep(tsObjId, doSwap=True): the working directories
\* of the tilt-series, its stack and its tilt file
BaseConvertInputStep(files, ts) ==
    WriteFile(WriteFile(WriteFile(WriteFile(files,
        <<"tmp", ts.tsId>>, Opaque), <<"extra", ts.tsId>>, Opaque),
        StPath(ts.tsId), Opaque), <<"tmp", ts.tsId, "tlt">>, Opaque)

ConvertInputStepTomo ==
    \E tsObjId \in 1..MaxTs :
       /\ IsNext(<<"convertInputStep", tsObjId>>)
       /\ fs' = BaseConvertInputStep(fs,
                    GetItem(inputSetOfTiltSeries, tsObjId))
       /\ lastError' = "none"
       /\ Count(<<"convertInputStep", tsObjId>>)
       /\ StepEnds
       /\ UNCHANGED <<parserVars, openHandles, paramVars, steps, jobs,
                      outputVars, Tomograms>>

\* Plugin.runImod: the program either ends well or the job raises
RunImodOutcomes == {"none", "tilt failed", "trimvol failed"}

\* computeReconstructionStep: getFirstItem() of an empty tilt-series is None,
\* and None.parseFileName() raises before any program is run
ReconstructionOf(ts, files, log, outcome) ==
    IF Len(ts.items) = 0
    THEN [exc |-> "AttributeError", fs |-> files, jobs |-> log]
    ELSE IF outcome = "tilt failed"
    THEN [exc |-> outcome, fs |-> files,
          jobs |-> Append(log, <<"tilt", ts.tsId>>)]
    ELSE IF outcome = "trimvol failed"
    THEN [exc |-> outcome, fs |-> WriteFile(files, RecPath(ts.tsId), Opaque),
          jobs |-> log \o <<<<"tilt", ts.tsId>>, <<"trimvol", ts.tsId>>>>]
    ELSE [exc |-> "none",
          fs |-> WriteFile(WriteFile(files, RecPath(ts.tsId), Opaque),
                           MrcPath(ts.tsId), Opaque),
          jobs |-> log \o <<<<"tilt", ts.tsId>>, <<"trimvol", ts.tsId>>>>]

ComputeReconstructionStep ==
    \E tsObjId \in 1..MaxTs :
       /\ IsNext(<<"computeReconstructionStep", tsObjId>>)
       /\ \E outcome \in RunImodOutcomes :
          \E r \in {ReconstructionOf(GetItem(inputSetOfTiltSeries, tsObjId),
                                     fs, jobs, outcome)} :
             /\ fs' = r.fs
             /\ jobs' = r.jobs
             /\ lastError' = r.exc
       /\ Count(<<"computeReconstructionStep", tsObjId>>)
       /\ StepEnds
       /\ UNCHANGED <<parserVars, openHandles, paramVars, steps, outputVars,
                      Tomograms>>

\* the protocol object's attributes createOutputStep works on
SelfTomo == [attrs |-> attrs, Tomograms |-> Tomograms, registry |-> registry]

\* getOutputSetOfTomograms(inputSet): the set is created, given the input's
\* sampling rate and defined as output on first access, and returned as it
\* is afterwards
getOutputSetOfTomograms(self, inputSet) ==
    IF "Tomograms" \notin self.attrs
    THEN [self EXCEPT
            !.Tomograms = [NoTomograms EXCEPT
                              !.setId = Len(self.registry.created) + 1,
                              !.samplingRate = inputSet.samplingRate],
            !.attrs = @ \cup {"Tomograms"},
            !.registry = Register(self, "Tomograms", "")]
    ELSE self

\* Tomogram(); setLocation; setTsId; setSamplingRate; setOrigin(None).
\* setAcquisition copies a field the tilt-series record here does not carry.
NewTomogram(ts) ==
    [objId |-> 0, tsId |-> ts.tsId, samplingRate |-> ts.samplingRate,
     location |-> MrcPath(ts.tsId), origin |-> "default"]

\* output.append(newTomogram); output.update(newTomogram); output.write()
AppendTomogram(output, newTomogram) ==
    [output EXCEPT
        !.items = Append(@, [newTomogram EXCEPT !.objId = output.idCount + 1]),
        !.idCount = NextId(@, newTomogram),
        !.written = TRUE]

\* createOutputStep: the output set is fetched before the location is built,
\* so an empty tilt-series raises after the set has been created
CreateOutputOf(self, ts) ==
    LET got == getOutputSetOfTomograms(self, inputSetOfTiltSeries) IN
    IF Len(ts.items) = 0
    THEN [exc |-> "AttributeError", self |-> got]
    ELSE [exc |-> "none",
          self |-> [got EXCEPT !.Tomograms =
                        AppendTomogram(@, NewTomogram(ts))]]

CreateOutputStep ==
    \E tsObjId \in 1..MaxTs :
       /\ IsNext(<<"createOutputStep", tsObjId>>)
       /\ \E r \in {CreateOutputOf(SelfTomo,
                        GetItem(inputSetOfTiltSeries, tsObjId))} :
             /\ attrs' = r.self.attrs
             /\ registry' = r.self.registry
             /\ Tomograms' = r.self.Tomograms
             /\ lastError' = r.exc
       /\ Count(<<"createOutputStep", tsObjId>>)
       /\ StepEnds
       /\ UNCHANGED <<parserVars, openHandles, paramVars, steps, fs, jobs,
                      outputSetOfTiltSeries,
                      outputInterpolatedSetOfTiltSeries>>

\* closeOutputSetsStep: without any tilt-series self.Tomograms holds no set
\* and setStreamState raises AttributeError
CloseOutputSetsStep ==
    /\ IsNext(<<"closeOutputSetsStep">>)
    /\ IF "Tomograms" \in attrs
       THEN /\ Tomograms' = [Tomograms EXCEPT
                                !.streamState = "STREAM_CLOSED",
                                !.written = TRUE]
            /\ lastError' = "none"
       ELSE /\ Tomograms' = Tomograms
            /\ lastError' = "AttributeError"
    /\ Count(<<"closeOutputSetsStep">>)
    /\ StepEnds
    /\ UNCHANGED <<parserVars, openHandles, paramVars, steps, fs, jobs,
                   outputVars>>

NextTomo ==
    \/ InsertAllStepsTomo
    \/ ConvertInputStepTomo
    \/ ComputeReconstructionStep
    \/ CreateOutputStep
    \/ CloseOutputSetsStep

SpecTomo == InitTomo /\ [][NextTomo]_vars

\* ====================================================== properties
\* --- of formatTransformationMatrix (specification SpecParse)
FileGiven == ParsePath \in DOMAIN fs

GivenLines == IF FileGiven THEN fs[ParsePath] ELSE <<>>

\* exactly six tokens, each a decimal literal
WellFormedLine(line) ==
    LET v == Split(line) IN
    /\ Len(v) = 6
    /\ \A k \in 1..6 : IsFloatLiteral(v[k])

\* fewer than six tokens, or a non-numeric token among the six fields
BadLine(line) ==
    LET v == Split(line) IN
    \/ Len(v) < 6
    \/ \E k \in 1..6 : k <= Len(v) /\ ~IsFloatLiteral(v[k])

Matrix3(r0, r1, r2) ==
    [r \in 0..2 |-> [c \in 0..2 |->
        (CASE r = 0 -> r0 [] r = 1 -> r1 [] OTHER -> r2)[c + 1]]]

\* [[1.0, 0.0, 2.5], [0.0, 1.0, -1.5], [0, 0, 1]]
ExampleMatrix ==
    Matrix3(<<10000, 0, 25000>>, <<0, 10000, -15000>>, <<0, 0, 10000>>)

\* C1: in every returned stack, matrix i holds the six values of line i at
\* [0][0]=v0, [1][0]=v1, [0][1]=v2, [1][1]=v3, [0][2]=v4, [1][2]=v5 and has
\* the bottom row [0, 0, 1]; the line "1.0 0.0 0.0 1.0 2.5 -1.5" gives
\* [[1.0, 0.0, 2.5], [0.0, 1.0, -1.5], [0, 0, 1]].
C1_FieldMapping ==
    parsed.called =>
        \A fm \in parsed.returns : \A i \in DOMAIN fm.at :
            LET v == Split(GivenLines[i + 1])
                m == fm.at[i]
            IN  /\ m[0][0] = Float(v[1])
                /\ m[1][0] = Float(v[2])
                /\ m[0][1] = Float(v[3])
                /\ m[1][1] = Float(v[4])
                /\ m[0][2] = Float(v[5])
                /\ m[1][2] = Float(v[6])
                /\ m[2][0] = 0 /\ m[2][1] = 0 /\ m[2][2] = 10000
                /\ (GivenLines[i + 1] = LineIdentityShift => m = ExampleMatrix)
                /\ (GivenLines[i + 1] = LineDistinct =>
                       m = Matrix3(<<5000, -2500, 37500>>,
                                   <<15000, 20000, -40000>>,
                                   <<0, 0, 10000>>))

C1_Witness ==
    /\ parsed.called
    /\ parsed.returns # {}
    /\ Len(GivenLines) = 2
    /\ GivenLines[1] = LineIdentityShift
    /\ GivenLines[2] = LineDistinct

\* C2: a well-formed file of N lines parses to a stack of exactly N
\* matrices, matrix i built from line i.
C2_LengthAndOrder ==
    (parsed.called /\ FileGiven /\ \A n \in DOMAIN GivenLines :
                                      WellFormedLine(GivenLines[n])) =>
        /\ parsed.exc = "none"
        /\ Cardinality(parsed.returns) = 1
        /\ \A fm \in parsed.returns :
              /\ fm.shape = Len(GivenLines)
              /\ DOMAIN fm.at = 0..(Len(GivenLines) - 1)
              /\ \A i \in DOMAIN fm.at :
                    fm.at[i] = LineMatrix(Split(GivenLines[i + 1]))

C2_Witness ==
    /\ parsed.called
    /\ parsed.exc = "none"
    /\ Len(GivenLines) = 2
    /\ WellFormedLine(GivenLines[1])
    /\ WellFormedLine(GivenLines[2])
    /\ GivenLines[1] # GivenLines[2]

\* C4: parsing an empty transform file fails with an error and returns no
\* (empty) stack.
C4_EmptyFileRejected ==
    (parsed.called /\ FileGiven /\ GivenLines = <<>>) =>
        /\ parsed.exc # "none"
        /\ parsed.returns = {}

FirstBadLine ==
    CHOOSE n \in DOMAIN GivenLines :
        BadLine(GivenLines[n]) /\ \A j \in 1..(n - 1) : ~BadLine(GivenLines[j])

\* C5: if some line has fewer than six tokens or a non-numeric token among
\* its six fields, the call raises at the first such line and returns no
\* stack, not even the part built from the earlier lines.
C5_FailsAtLineNoPartialStack ==
    (parsed.called /\ \E n \in DOMAIN GivenLines : BadLine(GivenLines[n])) =>
        /\ parsed.exc \in {"IndexError", "ValueError"}
        /\ parsed.line = FirstBadLine - 1
        /\ parsed.returns = {}

C5_Witness ==
    /\ parsed.called
    /\ Len(GivenLines) = 2
    /\ WellFormedLine(GivenLines[1])
    /\ BadLine(GivenLines[2])
    /\ parsed.exc # "none"
    /\ parsed.line = 1

\* C6: a line with more than six tokens is rejected with an error.
C6_ExtraTokensRejected ==
    (parsed.called /\ \E n \in DOMAIN GivenLines :
                         Len(Split(GivenLines[n])) > 6) =>
        parsed.exc # "none"

\* C9: when formatTransformationMatrix has ended, by return or by an
\* exception, the file handle it opened is closed.
C9_HandleReleased == parsed.called => openHandles = 0

C9_Witness ==
    /\ parsed.called
    /\ FileGiven
    /\ parsed.exc # "none"
    /\ parsed.line >= 1
    /\ openHandles = 0

\* --- of computeXcorrStep (specifications Spec and SpecRerun)
InputTs(k) == inputSetOfTiltSeries.items[k]

\* the transform file xftoxg wrote for tilt-series k
Prexg(k) == fs[PrexgPath(InputTs(k).tsId)]

WellFormedFile(lines) == \A n \in DOMAIN lines : WellFormedLine(lines[n])

XcorrRan == runs["computeXcorrStep"] >= 1

\* the output tilt-series made from input tilt-series k, if any
OutputsOf(k) ==
    {j \in DOMAIN outputSetOfTiltSeries.items :
        outputSetOfTiltSeries.items[j].tsId = InputTs(k).tsId}

\* the second loop of computeXcorrStep gets as far as tilt-series k
Reached(k) ==
    \A j \in 1..(k - 1) :
        WellFormedFile(Prexg(j)) /\ Len(InputTs(j).items) <= Len(Prexg(j))

\* C3: a stack of N matrices applied to a tilt-series of M # N images makes
\* the step fail with nothing produced for that tilt-series: no output
\* tilt-series, no output tilt image, no transform.
C3_MismatchRejected ==
    XcorrRan =>
        \A k \in DOMAIN inputSetOfTiltSeries.items :
            (/\ Reached(k)
             /\ WellFormedFile(Prexg(k))
             /\ Len(Prexg(k)) # Len(InputTs(k).items)) =>
                /\ lastError # "none"
                /\ OutputsOf(k) = {}

\* C7: a stack of N matrices applied to a tilt-series of N images gives N
\* output tilt images in input order; image i carries the transform of
\* line i and the id, tilt angle, sampling rate and location of input image
\* i; the input tilt-series is as it was.
C7_AppliedInOrder ==
    XcorrRan =>
        \A k \in DOMAIN inputSetOfTiltSeries.items :
            (/\ Reached(k)
             /\ WellFormedFile(Prexg(k))
             /\ Len(Prexg(k)) = Len(InputTs(k).items)) =>
                /\ k \in DOMAIN outputSetOfTiltSeries.items
                /\ InputTs(k) = InputTiltSeries(k, Len(InputTs(k).items))
                /\ LET newTs == outputSetOfTiltSeries.items[k]
                       ts    == InputTs(k)
                   IN  /\ newTs.tsId = ts.tsId
                       /\ Len(newTs.items) = Len(ts.items)
                       /\ \A i \in DOMAIN ts.items :
                             /\ newTs.items[i].transform =
                                    {LineMatrix(Split(Prexg(k)[i]))}
                             /\ newTs.items[i].objId = ts.items[i].objId
                             /\ newTs.items[i].tiltAngle = ts.items[i].tiltAngle
                             /\ newTs.items[i].samplingRate =
                                    ts.items[i].samplingRate
                             /\ newTs.items[i].location = ts.items[i].location

C7_Witness ==
    /\ XcorrRan
    /\ lastError = "none"
    /\ Len(inputSetOfTiltSeries.items) = 2
    /\ \A k \in {1, 2} :
          Len(InputTs(k).items) = 2 /\ Len(Prexg(k)) = 2
    /\ Len(outputSetOfTiltSeries.items) = 2

\* C8: a second application of computeXcorrStep to the same input, after a
\* first one that succeeded, leaves the output set as the first one made it.
C8_Idempotent ==
    [][(/\ XcorrRan
        /\ lastError = "none"
        /\ runs'["computeXcorrStep"] = runs["computeXcorrStep"] + 1
        /\ lastError' = "none")
       => outputSetOfTiltSeries' = outputSetOfTiltSeries]_vars

Occurrences(seq, x) == Cardinality({n \in DOMAIN seq : seq[n] = x})

CreatedOnce(name, suffix, step) ==
    LET n == IF runs[step] >= 1 THEN 1 ELSE 0 IN
    /\ (name \in attrs) = (runs[step] >= 1)
    /\ Occurrences(registry.created, suffix) = n
    /\ Occurrences(registry.outputs, name) = n
    /\ Occurrences(registry.relations, <<"inputSetOfTiltSeries", name>>) = n

\* C10: however often getOutputSetOfTiltSeries and
\* getOutputInterpolatedSetOfTiltSeries are called, each output set is
\* created, defined as output and related to the input once, on the first
\* call, and the attribute keeps holding that set.
C10_CreatedOnce ==
    /\ CreatedOnce("outputSetOfTiltSeries", "", "computeXcorrStep")
    /\ CreatedOnce("outputInterpolatedSetOfTiltSeries", "Interpolated",
                   "computeInterpolatedStackStep")
    /\ ("outputSetOfTiltSeries" \in attrs =>
           /\ registry.created[outputSetOfTiltSeries.setId] = ""
           /\ outputSetOfTiltSeries.suffix = "")
    /\ ("outputInterpolatedSetOfTiltSeries" \in attrs =>
           /\ registry.created[outputInterpolatedSetOfTiltSeries.setId] =
                  "Interpolated"
           /\ outputInterpolatedSetOfTiltSeries.suffix = "Interpolated")

C10_Witness ==
    /\ runs["computeXcorrStep"] = 2
    /\ runs["computeInterpolatedStackStep"] = 2
    /\ Len(registry.created) = 2

\* the number of input tilt-series
NumTs == Len(inputSetOfTiltSeries.items)

\* --- of the schedule of ProtImodXcorr (specification Spec)
InsertedSteps == status # "new"

InterpolationRequested == computeAlignment = 0

\* the position in the log of the only run of a program on a tilt-series
JobIndex(program, tsId) ==
    CHOOSE n \in DOMAIN jobs : jobs[n] = <<program, tsId>>

JobRan(program, tsId) == \E n \in DOMAIN jobs : jobs[n] = <<program, tsId>>

\* C12: convertInputStep and computeXcorrStep are always inserted, in this
\* order, and computeInterpolatedStackStep after them exactly when
\* computeAlignment is 0; steps run in the inserted order, so a finished run
\* has run the first two once and the third exactly when it was requested;
\* computeXcorrStep runs tiltxcorr before xftoxg for each tilt-series and
\* never looks for a .prexg file that xftoxg has not written; the
\* interpolated output set exists only when interpolation was requested.
C12_ScheduleAndJobOrder ==
    /\ InsertedSteps =>
          /\ Len(steps) >= 2
          /\ steps[1] = "convertInputStep"
          /\ steps[2] = "computeXcorrStep"
          /\ (Len(steps) = 3) = InterpolationRequested
          /\ Len(steps) = 3 => steps[3] = "computeInterpolatedStackStep"
          /\ Len(steps) <= 3
    /\ XcorrRan => runs["convertInputStep"] >= 1
    /\ runs["computeInterpolatedStackStep"] >= 1
          => XcorrRan /\ InterpolationRequested
    /\ status = "finished" =>
          /\ runs["convertInputStep"] = 1
          /\ runs["computeXcorrStep"] = 1
          /\ (runs["computeInterpolatedStackStep"] = 1) = InterpolationRequested
    /\ XcorrRan => \A k \in 1..NumTs :
          /\ JobRan("tiltxcorr", InputTs(k).tsId)
          /\ JobRan("xftoxg", InputTs(k).tsId)
          /\ JobIndex("tiltxcorr", InputTs(k).tsId)
                < JobIndex("xftoxg", InputTs(k).tsId)
    /\ lastError # "FileNotFoundError"
    /\ \A n \in DOMAIN outputSetOfTiltSeries.items :
          /\ JobRan("xftoxg", outputSetOfTiltSeries.items[n].tsId)
          /\ PrexgPath(outputSetOfTiltSeries.items[n].tsId) \in DOMAIN fs
    /\ "outputInterpolatedSetOfTiltSeries" \in attrs => InterpolationRequested

\* a finished run with interpolation requested on the largest input, and the
\* transforms of the last tilt-series read from its .prexg file
C12_Witness ==
    /\ status = "finished"
    /\ InterpolationRequested
    /\ NumTs = MaxTs
    /\ runs["computeInterpolatedStackStep"] = 1
    /\ Len(outputSetOfTiltSeries.items) = MaxTs
    /\ Len(outputSetOfTiltSeries.items[MaxTs].items) >= 1
    /\ "outputInterpolatedSetOfTiltSeries" \in attrs

\* --- of computeInterpolatedStackStep (specification Spec)
InterpolatedRan == runs["computeInterpolatedStackStep"] >= 1

\* C13: after computeInterpolatedStackStep, whatever the binning, the
\* sampling rate of the interpolated output set is the sampling rate of each
\* of its tilt-series and of each of their tilt images, and the tilt image at
\* position i (counted from 0) has location index i + 1 in the preali stack
\* of its tilt-series.
C13_SamplingRatesAgree ==
    InterpolatedRan =>
        \A n \in DOMAIN outputInterpolatedSetOfTiltSeries.items :
            LET newTs == outputInterpolatedSetOfTiltSeries.items[n] IN
            /\ newTs.samplingRate =
                   outputInterpolatedSetOfTiltSeries.samplingRate
            /\ \A index \in 0..(Len(newTs.items) - 1) :
                  /\ newTs.items[index + 1].samplingRate =
                         outputInterpolatedSetOfTiltSeries.samplingRate
                  /\ newTs.items[index + 1].location =
                         <<index + 1, PrealiPath(newTs.tsId)>>

\* --- of _summary and _methods (specification Spec)
NoOutputYet ==
    attrs \cap {"outputSetOfTiltSeries", "outputInterpolatedSetOfTiltSeries"}
        = {}

\* C14: in every state of a run (no output set yet, only
\* outputSetOfTiltSeries, both output sets) _summary and _methods return a
\* message without failing; while no output set exists the message is
\* "Output classes not ready yet."; and the number of input tilt-series a
\* summary reports is the size of the input set.
C14_InfoAlwaysAnswers ==
    /\ Summary(Self).exc = "none"
    /\ Methods(Self).exc = "none"
    /\ NoOutputYet =>
          /\ Summary(Self).text = "Output classes not ready yet."
          /\ Methods(Self).text = "Output classes not ready yet."
    /\ Len(Summary(Self).numbers) >= 1 =>
          Summary(Self).numbers[1] = GetSize(inputSetOfTiltSeries)

\* --- of ProtImodTomoReconstruction (specification SpecTomo)
Ran(step) == runs[step] >= 1

ObjIdOf(k) == inputSetOfTiltSeries.items[k].objId

\* the three steps of tilt-series k have run in the order convert,
\* reconstruct, create output, each at most once and after the steps of k-1
RanInOrder(k) ==
    /\ runs[<<"convertInputStep", ObjIdOf(k)>>] <= 1
    /\ runs[<<"computeReconstructionStep", ObjIdOf(k)>>] <= 1
    /\ runs[<<"createOutputStep", ObjIdOf(k)>>] <= 1
    /\ Ran(<<"createOutputStep", ObjIdOf(k)>>)
          => Ran(<<"computeReconstructionStep", ObjIdOf(k)>>)
    /\ Ran(<<"computeReconstructionStep", ObjIdOf(k)>>)
          => Ran(<<"convertInputStep", ObjIdOf(k)>>)
    /\ (k > 1 /\ Ran(<<"convertInputStep", ObjIdOf(k)>>))
          => Ran(<<"createOutputStep", ObjIdOf(k - 1)>>)
    \* a finished output step has left the tomogram of a reconstruction
    \* that was computed before it
    /\ (Ran(<<"createOutputStep", ObjIdOf(k)>>) /\ lastError = "none")
          => MrcPath(InputTs(k).tsId) \in DOMAIN fs

\* C11: with K >= 1 input tilt-series the steps run per tilt-series in the
\* order convertInputStep, computeReconstructionStep, createOutputStep;
\* closeOutputSetsStep runs at most once and only after all of them; the
\* Tomograms set is closed only once every tomogram has been appended; and
\* when the run has finished the set holds exactly K tomograms, tomogram k
\* carrying the tsId of input tilt-series k.
C11_StepsInOrderAndAllTomograms ==
    NumTs >= 1 =>
       /\ \A k \in 1..NumTs : RanInOrder(k)
       /\ runs[<<"closeOutputSetsStep">>] <= 1
       /\ Ran(<<"closeOutputSetsStep">>)
             => \A k \in 1..NumTs : Ran(<<"createOutputStep", ObjIdOf(k)>>)
       /\ Tomograms.streamState = "STREAM_CLOSED"
             => /\ Ran(<<"closeOutputSetsStep">>)
                /\ Len(Tomograms.items) = NumTs
       /\ Len(Tomograms.items) <= NumTs
       /\ \A n \in DOMAIN Tomograms.items :
             /\ Tomograms.items[n].tsId = InputTs(n).tsId
             /\ Ran(<<"createOutputStep", ObjIdOf(n)>>)
       /\ status = "finished"
             => /\ Len(Tomograms.items) = NumTs
                /\ Tomograms.streamState = "STREAM_CLOSED"
                /\ Ran(<<"closeOutputSetsStep">>)
                /\ Occurrences(registry.outputs, "Tomograms") = 1

\* a finished reconstruction of the largest input: all tomograms, set closed
C11_Witness ==
    /\ NumTs = MaxTs
    /\ status = "finished"
    /\ Ran(<<"closeOutputSetsStep">>)
    /\ Len(Tomograms.items) = MaxTs
    /\ Tomograms.items[MaxTs].tsId = TsId(MaxTs)
    /\ Tomograms.streamState = "STREAM_CLOSED"

====
